---- MODULE Spec2Model ----
(***************************************************************************)
(* Signal synthesis of the stock-analysis pipeline.                        *)
(*                                                                         *)
(* Three pieces of code aggregate the five specialist reports:             *)
(*   - ProductionOrchestrator.analyze_stock (CloudOrchestrator.analyze_    *)
(*     stock carries the same Phase 2 text),                               *)
(*   - KaggleOrchestrator.analyze_stock,                                   *)
(*   - StockPredictor.predict_from_reports (the predictor agent's tool).   *)
(*                                                                         *)
(* Units.  directional_signal is kept in hundredths (-100 .. 100 is the    *)
(* declared range), confidence_score in points (0 .. 100).  A quotient the *)
(* code computes in floating point is kept as an exact fraction num/den    *)
(* with den > 0; comparisons are done by cross-multiplication.  Floating   *)
(* point rounding error is therefore not modelled.                         *)
(***************************************************************************)
EXTENDS Integers, Sequences, FiniteSets

\* one analysis request: the orchestrator, its position, the reports collected, the result
VARIABLES variant, verbose, pc, results, out

\* calls of predict(): the report dicts in memory, the clock, and each call's frame
VARIABLES reports, clock, calls

\* the network layer of one request: how each agent behaves, and each specialist call
VARIABLES nature, task

\* what the data providers return at the moment, and the analyze_stock runs made so far
VARIABLES upstream, runs

vars == <<variant, verbose, pc, results, out, reports, clock, calls, nature, task,
          upstream, runs>>

world == <<upstream, runs>>

network == <<nature, task>>

request == <<variant, verbose, pc, results, out>>

(***************************************************************************)
(* Bounds of the exploration: number of steps of the signal grid and of    *)
(* the confidence grid the agents' answers are drawn from.                 *)
(***************************************************************************)
SigLevels == 1
ConfLevels == 1

\* number of ticks of the clock during the calls of predict()
MaxClock == 2

\* how many times analyze_stock is run for one ticker
MaxRuns == 2

(***************************************************************************)
(* The five specialist agents, in the insertion order of the dictionaries. *)
(***************************************************************************)
AgentOrder == <<"fundamental", "technical", "sentiment", "macro", "regulatory">>

Agents == {AgentOrder[i] : i \in 1..Len(AgentOrder)}

Variants == {"production", "kaggle", "predictor"}

(***************************************************************************)
(* A report is the part of an agent's dict the synthesis reads: whether    *)
(* the keys "error", "directional_signal" and "confidence_score" are       *)
(* present, and the two numbers (0 when the key is absent).                *)
(***************************************************************************)
Rep(e, hs, s, hc, c) == [err |-> e, hasSig |-> hs, sig |-> s, hasConf |-> hc, conf |-> c]

Complete(s, c) == Rep(FALSE, TRUE, s, TRUE, c)

SigVals == {(200 * i) \div SigLevels - 100 : i \in 0..SigLevels}

ConfVals == {(100 * i) \div ConfLevels : i \in 0..ConfLevels}

\* json.loads(response_text) failed: the text is wrapped, signal 0.0, confidence 50.0
NonJsonFallback == Complete(0, 50)

\* the call raised: ProductionOrchestrator / CloudOrchestrator fallback dict
ErrorFallback == Rep(TRUE, TRUE, 0, TRUE, 0)

\* the call raised: StrategistOrchestrator's dict carries only "error"
ErrorOnly == Rep(TRUE, FALSE, 0, FALSE, 0)

\* what json.loads can return for an agent's answer: any dict
JsonReports ==
    {Complete(s, c) : s \in SigVals, c \in ConfVals}
    \cup {Rep(TRUE, TRUE, 100, TRUE, 100)}
    \cup {Rep(FALSE, TRUE, 100, FALSE, 0), Rep(FALSE, FALSE, 0, TRUE, 100)}

RECURSIVE SumSeq(_)
SumSeq(s) == IF s = <<>> THEN 0 ELSE Head(s) + SumSeq(Tail(s))

Min(a, b) == IF a < b THEN a ELSE b

Abs(x) == IF x < 0 THEN -x ELSE x

\* the values of a dict in insertion order: the agents of AgentOrder that are keys of r
Values(r) == SelectSeq(AgentOrder, LAMBDA a : a \in DOMAIN r)

\* Python's round(): nearest multiple, ties to even; num/den with den > 0
RoundHalfEven(num, den) ==
    LET q == num \div den
        rem == num - q * den
    IN  IF 2 * rem < den THEN q
        ELSE IF 2 * rem > den THEN q + 1
        ELSE IF q % 2 = 0 THEN q ELSE q + 1

NoResult == [kind |-> "none"]

Init ==
    /\ variant \in Variants
    /\ verbose \in (IF variant = "predictor" THEN BOOLEAN ELSE {FALSE})
    /\ pc = "calling"
    /\ results = [a \in {} |-> ErrorOnly]
    /\ out = NoResult
    /\ reports = <<>>
    /\ clock = 0
    /\ calls = <<>>
    /\ nature = <<>>
    /\ task = <<>>
    /\ upstream = <<>>
    /\ runs = <<>>

\* the agent whose call comes next
NextAgent == AgentOrder[Cardinality(DOMAIN results) + 1]

Store(ag, rep) ==
    results' = [a \in DOMAIN results \cup {ag} |-> IF a = ag THEN rep ELSE results[a]]

\* the second phase entered while the last call is still pending
AfterCall_early ==
    pc' = IF Cardinality(DOMAIN results) + 1 >= Len(AgentOrder) - 1 THEN "synthesis" ELSE "calling"

AfterCall == pc' = IF Cardinality(DOMAIN results) + 1 = Len(AgentOrder) THEN "synthesis" ELSE "calling"

(***************************************************************************)
(* ProductionOrchestrator / CloudOrchestrator                              *)
(***************************************************************************)
\* _call_agent_direct: parsed JSON, wrapped text, or the fallback of the except branch
call_agent_direct == JsonReports \cup {NonJsonFallback, ErrorFallback}

\* Phase 1: one iteration of the loop over self.agents
ProductionCall ==
    /\ variant = "production"
    /\ pc = "calling"
    /\ \E rep \in call_agent_direct : Store(NextAgent, rep)
    /\ AfterCall
    /\ UNCHANGED <<world, variant, verbose, out, reports, clock, calls, network>>

\* the field of the reports under the keys ks, in that order
SignalsOf(r, ks) == [i \in 1..Len(ks) |-> r[ks[i]].sig]

ConfidencesOf(r, ks) == [i \in 1..Len(ks) |-> r[ks[i]].conf]

\* signals = [r.get("directional_signal", 0.0) for r in results.values() if "directional_signal" in r]
ProdSignals(r) == SignalsOf(r, SelectSeq(Values(r), LAMBDA a : r[a].hasSig))

\* confidences = [r.get("confidence_score", 0.0) for r in results.values() if "confidence_score" in r]
ProdConfidences(r) == ConfidencesOf(r, SelectSeq(Values(r), LAMBDA a : r[a].hasConf))

\* sum(s * c for s, c in zip(signals, confidences))
ZipSum(ss, cs) == SumSeq([i \in 1..Min(Len(ss), Len(cs)) |-> ss[i] * cs[i]])

\* weighted_signal > 0.3, on the fraction num/den of hundredths
Above(num, den, t) == num > t * den

Below(num, den, t) == num < t * den

\* the three tiers of the BUY/SELL branch applied to HOLD as well
ProdRisk_three_tier(rec, cfNum, cfDen) ==
    IF Above(cfNum, cfDen, 70) THEN (IF rec = "HOLD" THEN "LOW" ELSE "MEDIUM")
    ELSE IF rec = "HOLD" /\ Above(cfNum, cfDen, 60) THEN "MEDIUM"
    ELSE "HIGH"

ProdRisk(rec, cfNum, cfDen) ==
    IF rec = "HOLD"
    THEN IF Above(cfNum, cfDen, 70) THEN "LOW" ELSE "MEDIUM"
    ELSE IF Above(cfNum, cfDen, 70) THEN "MEDIUM" ELSE "HIGH"

ProdRecommendation(num, den) ==
    IF Above(num, den, 30) THEN "BUY"
    ELSE IF Below(num, den, -30) THEN "SELL"
    ELSE "HOLD"

\* sentiment = "bullish" if signal > 0.3 else "bearish" if signal < -0.3 else "neutral"
Sentiment(signal) ==
    IF signal > 30 THEN "bullish" ELSE IF signal < -30 THEN "bearish" ELSE "neutral"

\* result.get("directional_signal", 0.0), result.get("confidence_score", 0.0)
GetOrZero(has, value) == IF has THEN value ELSE 0

\* the lines "Weighted directional signal: {:+.2f}" (hundredths) and
\* "Average confidence: {:.1f}%" (tenths)
AggregateLines(wsNum, wsDen, cfNum, cfDen) ==
    <<[line |-> "weighted_signal", value |-> RoundHalfEven(wsNum, wsDen)],
      [line |-> "average_confidence", value |-> RoundHalfEven(10 * cfNum, cfDen)]>>

\* "- {agent_name}: {sentiment} (signal: {signal:+.2f}, confidence: {conf:.0f}%)"
AgentLine(agent_type, signal, conf) ==
    [line |-> "agent", agent |-> agent_type, sentiment |-> Sentiment(signal),
     signal |-> signal, confidence |-> conf]

AgentLines(r, ks) ==
    [i \in 1..Len(ks) |->
        AgentLine(ks[i], GetOrZero(r[ks[i]].hasSig, r[ks[i]].sig),
                  GetOrZero(r[ks[i]].hasConf, r[ks[i]].conf))]

\* a line for every agent, the error-flagged ones too
ProdRationale_all(r, wsNum, wsDen, cfNum, cfDen) ==
    <<[line |-> "header"]>>
    \o AgentLines(r, Values(r))
    \o AggregateLines(wsNum, wsDen, cfNum, cfDen)
    \o <<[line |-> "protocol"]>>

\* "Build rationale": rationale_parts, one element per line
ProdRationale(r, wsNum, wsDen, cfNum, cfDen) ==
    <<[line |-> "header"]>>
    \o AgentLines(r, SelectSeq(Values(r), LAMBDA a : ~r[a].err))
    \o AggregateLines(wsNum, wsDen, cfNum, cfDen)
    \o <<[line |-> "protocol"]>>

\* "Determine recommendation" and the returned dict, for weighted_signal = wsNum / wsDen
\* hundredths and avg_confidence = cfNum / cfDen
ProductionResult(r, wsNum, wsDen, cfNum, cfDen) ==
    [kind |-> "production",
     wsNum |-> wsNum, wsDen |-> wsDen,
     cfNum |-> cfNum, cfDen |-> cfDen,
     recommendation |-> ProdRecommendation(wsNum, wsDen),
     risk_level |-> ProdRisk(ProdRecommendation(wsNum, wsDen), cfNum, cfDen),
     weighted_signal |-> RoundHalfEven(10 * wsNum, wsDen),
     confidence |-> RoundHalfEven(10 * cfNum, cfDen),
     rationale |-> ProdRationale(r, wsNum, wsDen, cfNum, cfDen),
     analysis_reports |-> r]

\* the confidence-weighted sum divided by the number of reports instead of sum(confidences)
WeightedAverage_mean(r, ss, cs, sumc) ==
    IF Len(ss) > 0 /\ Len(cs) > 0
    THEN IF sumc > 0
         THEN ProductionResult(r, ZipSum(ss, cs), Len(cs), sumc, Len(cs))
         ELSE ProductionResult(r, 0, 1, sumc, Len(cs))
    ELSE ProductionResult(r, 0, 1, 50, 1)

SynthProduction_mean(r) ==
    WeightedAverage_mean(r, ProdSignals(r), ProdConfidences(r), SumSeq(ProdConfidences(r)))

\* the division by sum(confidences) without the "if sum(confidences) > 0" guard
WeightedAverage_unguarded(r, ss, cs, sumc) ==
    IF Len(ss) > 0 /\ Len(cs) > 0
    THEN IF sumc = 0
         THEN [kind |-> "raised"]
         ELSE ProductionResult(r, ZipSum(ss, cs), sumc, sumc, Len(cs))
    ELSE ProductionResult(r, 0, 1, 50, 1)

SynthProduction_unguarded(r) ==
    WeightedAverage_unguarded(r, ProdSignals(r), ProdConfidences(r), SumSeq(ProdConfidences(r)))

\* "Calculate weighted average signal": the branches of "if signals and confidences"
\* and of "if sum(confidences) > 0"
WeightedAverage(r, ss, cs, sumc) ==
    IF Len(ss) > 0 /\ Len(cs) > 0
    THEN IF sumc > 0
         THEN ProductionResult(r, ZipSum(ss, cs), sumc, sumc, Len(cs))
         ELSE ProductionResult(r, 0, 1, sumc, Len(cs))
    ELSE ProductionResult(r, 0, 1, 50, 1)

\* Phase 2 of analyze_stock, from "Calculate weighted average signal" to the return
SynthProduction(r) ==
    WeightedAverage(r, ProdSignals(r), ProdConfidences(r), SumSeq(ProdConfidences(r)))

ProductionSynthesis ==
    /\ variant = "production"
    /\ pc = "synthesis"
    /\ out' = SynthProduction(results)
    /\ pc' = "done"
    /\ UNCHANGED <<world, variant, verbose, results, reports, clock, calls, network>>

(***************************************************************************)
(* KaggleOrchestrator                                                      *)
(***************************************************************************)
\* what each _analyze_* method can return: directional_signal and confidence_score
\* are always present; only _analyze_fundamentals flags its fallback with "error".
\* The signals and confidences are samples of the ranges the methods compute.
KaggleOutcomes(ag) ==
    CASE ag = "fundamental" ->
           {Complete(s, c) : s \in {-50, 0, 15, 61}, c \in {55, 70, 85}}
           \cup {Rep(TRUE, TRUE, 0, TRUE, 50)}
      [] ag = "technical" ->
           {Complete(s, c) : s \in {-65, 0, 69}, c \in {58, 82}} \cup {Complete(0, 50)}
      [] ag = "sentiment" ->
           {Complete(s, 65) : s \in {-100, 0, 100}} \cup {Complete(0, 40), Complete(0, 45)}
      [] ag = "macro" ->
           {Complete(s, 72) : s \in {-50, -40, 0, 30, 50}} \cup {Complete(0, 60)}
      [] OTHER ->
           {Complete(0, 58), Complete(-20, 58), Complete(0, 50)}

\* one entry of the results dict literal of analyze_stock
KaggleAnalyze ==
    /\ variant = "kaggle"
    /\ pc = "calling"
    /\ \E rep \in KaggleOutcomes(NextAgent) : Store(NextAgent, rep)
    /\ AfterCall
    /\ UNCHANGED <<world, variant, verbose, out, reports, clock, calls, network>>

KaggleRecommendation(num, den) ==
    IF Above(num, den, 15) THEN "BUY"
    ELSE IF Below(num, den, -15) THEN "SELL"
    ELSE "HOLD"

\* LOW decided by the confidence alone, the 0.35 test on the signal forgotten
KaggleRisk_conf_only(num, den, cfNum, cfDen) ==
    IF Above(num, den, 15) \/ Below(num, den, -15)
    THEN IF Above(cfNum, cfDen, 70) THEN "LOW"
         ELSE IF Above(cfNum, cfDen, 60) THEN "MEDIUM" ELSE "HIGH"
    ELSE IF Above(cfNum, cfDen, 70) THEN "LOW" ELSE "MEDIUM"

KaggleRisk(num, den, cfNum, cfDen) ==
    IF Above(num, den, 15)
    THEN IF Above(num, den, 35) /\ Above(cfNum, cfDen, 70) THEN "LOW"
         ELSE IF Above(cfNum, cfDen, 60) THEN "MEDIUM" ELSE "HIGH"
    ELSE IF Below(num, den, -15)
    THEN IF Below(num, den, -35) /\ Above(cfNum, cfDen, 70) THEN "LOW"
         ELSE IF Above(cfNum, cfDen, 60) THEN "MEDIUM" ELSE "HIGH"
    ELSE IF Above(cfNum, cfDen, 70) THEN "LOW" ELSE "MEDIUM"

\* the rationale f-string: the summary of each of the five agents, then the aggregates
KaggleRationale(wsNum, wsDen, cfNum, cfDen) ==
    <<[line |-> "header"]>>
    \o [i \in 1..Len(AgentOrder) |-> [line |-> "summary", agent |-> AgentOrder[i]]]
    \o AggregateLines(wsNum, wsDen, cfNum, cfDen)

\* Phase 2 of analyze_stock; r["directional_signal"] raises KeyError on a missing key
SynthKaggle(r) ==
    LET ks == Values(r)
        raised == \E a \in DOMAIN r : ~r[a].hasSig \/ ~r[a].hasConf
        ss == [i \in 1..Len(ks) |-> r[ks[i]].sig]
        cs == [i \in 1..Len(ks) |-> r[ks[i]].conf]
        total_conf == SumSeq(cs)
        wsNum == IF total_conf > 0 THEN ZipSum(ss, cs) ELSE 0
        wsDen == IF total_conf > 0 THEN total_conf ELSE 1
        cfNum == IF total_conf > 0 THEN total_conf ELSE 50
        cfDen == IF total_conf > 0 THEN Len(cs) ELSE 1
    IN  IF raised THEN [kind |-> "raised"]
        ELSE [kind |-> "kaggle",
              wsNum |-> wsNum, wsDen |-> wsDen,
              cfNum |-> cfNum, cfDen |-> cfDen,
              recommendation |-> KaggleRecommendation(wsNum, wsDen),
              risk_level |-> KaggleRisk(wsNum, wsDen, cfNum, cfDen),
              weighted_signal |-> RoundHalfEven(10 * wsNum, wsDen),
              confidence |-> RoundHalfEven(10 * cfNum, cfDen),
              rationale |-> KaggleRationale(wsNum, wsDen, cfNum, cfDen),
              analysis_reports |-> r]

KaggleSynthesis ==
    /\ variant = "kaggle"
    /\ pc = "synthesis"
    /\ out' = SynthKaggle(results)
    /\ pc' = "done"
    /\ UNCHANGED <<world, variant, verbose, results, reports, clock, calls, network>>

(***************************************************************************)
(* StrategistOrchestrator -> predictor agent -> StockPredictor             *)
(***************************************************************************)
\* _call_agent_async: parsed JSON, wrapped text, or {"error": ...} of the except branch
call_agent_async == JsonReports \cup {NonJsonFallback, ErrorOnly}

StrategistCall ==
    /\ variant = "predictor"
    /\ pc = "calling"
    /\ \E rep \in call_agent_async : Store(NextAgent, rep)
    /\ AfterCall
    /\ UNCHANGED <<world, variant, verbose, out, reports, clock, calls, network>>

\* base weights 0.30, 0.25, 0.20, 0.15, 0.10, in units of 1 / BaseScale
BaseScale == 20

base_weights ==
    [a \in Agents |->
        CASE a = "fundamental" -> 6
          [] a = "technical" -> 5
          [] a = "sentiment" -> 4
          [] a = "macro" -> 3
          [] OTHER -> 2]

\* report.get("directional_signal", 0.0), report.get("confidence_score", 50.0)
GetSignal(rep) == IF rep.hasSig THEN rep.sig ELSE 0

GetConfidence(rep) == IF rep.hasConf THEN rep.conf ELSE 50

\* signals = {key: (signal, confidence)} of predict_from_reports
ExtractSignals(r) == [a \in Agents |-> [sig |-> GetSignal(r[a]), conf |-> GetConfidence(r[a])]]

\* weight = base_weights[key] * (0.5 + 0.5 * confidence / 100.0), times WeightScale
WeightScale == 4000

\* a weight proportional to the raw confidence, without the 0.5 floor
EffectiveWeight_raw(key, confidence) == base_weights[key] * 2 * confidence

EffectiveWeight(key, confidence) == base_weights[key] * (100 + confidence)

\* "Normalize weights": the returned triple for the weights and their sum
NormalizedBy(signals, weight, total_weight) ==
    [wsNum |-> IF total_weight > 0
               THEN SumSeq([i \in 1..Len(AgentOrder) |->
                        signals[AgentOrder[i]].sig * weight[AgentOrder[i]]])
               ELSE 0,
     wsDen |-> IF total_weight > 0 THEN total_weight ELSE 1,
     cfNum |-> SumSeq([i \in 1..Len(AgentOrder) |->
                   signals[AgentOrder[i]].conf * base_weights[AgentOrder[i]]]),
     cfDen |-> BaseScale,
     weight |-> weight,
     wDen |-> IF total_weight > 0 THEN total_weight ELSE WeightScale]

\* the weights left as computed, as if the base weights' sum 1.0 were the total
WeightedBy_unnormalized(signals, weight) ==
    NormalizedBy(signals, weight, WeightScale)

WeightedBy(signals, weight) ==
    NormalizedBy(signals, weight, SumSeq([i \in 1..Len(AgentOrder) |-> weight[AgentOrder[i]]]))

\* (weighted_signal, overall_confidence, final_weights) as exact fractions:
\* weighted_signal = wsNum / wsDen hundredths, overall_confidence = cfNum / cfDen,
\* final_weights[k] = weight[k] / wDen
calculate_weighted_signal(signals) ==
    WeightedBy(signals, [a \in Agents |-> EffectiveWeight(a, signals[a].conf)])

\* the thresholds taken as inclusive
signal_to_recommendation_ge(num, den) ==
    IF num >= 30 * den THEN "BUY"
    ELSE IF num <= (-30) * den THEN "SELL"
    ELSE "HOLD"

signal_to_recommendation(num, den) ==
    IF Above(num, den, 30) THEN "BUY"
    ELSE IF Below(num, den, -30) THEN "SELL"
    ELSE "HOLD"

\* n * sum(x^2) - sum(x)^2 = n^2 * np.std(x)^2
Dispersion(xs) ==
    Len(xs) * SumSeq([i \in 1..Len(xs) |-> xs[i] * xs[i]]) - SumSeq(xs) * SumSeq(xs)

\* np.std(xs) > t hundredths
StdAbove(xs, t) == Dispersion(xs) > t * t * Len(xs) * Len(xs)

\* the tiers of _assess_risk for the signals, the confidences and weighted_signal = num / den
RiskTier(signal_values, confs, num, den) ==
    IF StdAbove(signal_values, 60) \/ SumSeq(confs) < 40 * Len(confs) THEN "HIGH"
    ELSE IF StdAbove(signal_values, 30) \/ SumSeq(confs) < 60 * Len(confs)
            \/ Abs(num) > 80 * den THEN "MEDIUM"
    ELSE "LOW"

assess_risk(signals, num, den) ==
    RiskTier([i \in 1..Len(AgentOrder) |-> signals[AgentOrder[i]].sig],
             [i \in 1..Len(AgentOrder) |-> signals[AgentOrder[i]].conf], num, den)

\* the position that sorts first among the positions of m not yet taken: the largest
\* magnitude, the earliest position among equal magnitudes (the sort is stable)
Strongest(m, taken) ==
    CHOOSE j \in DOMAIN m \ taken :
        \A i \in DOMAIN m \ taken : ~(m[i] > m[j] \/ (m[i] = m[j] /\ i < j))

RECURSIVE TopOf(_, _, _)
TopWith(m, taken, n, j) == <<j>> \o TopOf(m, taken \cup {j}, n - 1)

\* the first n positions of m sorted by decreasing magnitude
TopOf(m, taken, n) == IF n = 0 THEN <<>> ELSE TopWith(m, taken, n, Strongest(m, taken))

\* sorted(signals.items(), key=abs(signal), reverse=True)[:3], as positions in the dict
sorted_signals(signals) ==
    TopOf([i \in 1..Len(AgentOrder) |-> Abs(signals[AgentOrder[i]].sig)], {}, 3)

\* "{i}. {key} ({direction}, confidence: {confidence}%, weight: {weights[key]:.1%})"
FactorLine(signals, w, key) ==
    [line |-> "factor", agent |-> key,
     direction |-> IF signals[key].sig > 0 THEN "positive"
                   ELSE IF signals[key].sig < 0 THEN "negative"
                   ELSE "neutral",
     confidence |-> signals[key].conf,
     weight |-> RoundHalfEven(1000 * w.weight[key], w.wDen)]

\* the note on disagreement or consensus that closes the rationale
ConsensusNote(signal_values) ==
    IF StdAbove(signal_values, 50) THEN <<[line |-> "note", note |-> "disagreement"]>>
    ELSE IF (\A i \in DOMAIN signal_values : signal_values[i] > 20)
            \/ (\A i \in DOMAIN signal_values : signal_values[i] < -20)
    THEN <<[line |-> "note", note |-> "consensus"]>>
    ELSE <<>>

KeyFactors(signals, w, top) ==
    [i \in 1..Len(top) |-> FactorLine(signals, w, AgentOrder[top[i]])]

\* rationale_parts of _generate_rationale: the recommendation with the weighted signal,
\* "Key Factors:", the three strongest signals, and a note on disagreement or consensus
generate_rationale(signals, w, recommendation) ==
    <<[line |-> "recommendation", recommendation |-> recommendation,
       value |-> RoundHalfEven(w.wsNum, w.wsDen)],
      [line |-> "key_factors"]>>
    \o KeyFactors(signals, w, sorted_signals(signals))
    \o ConsensusNote([i \in 1..Len(AgentOrder) |-> signals[AgentOrder[i]].sig])

\* the returned dict, for the pairs of "Extract signals and confidence scores" and the
\* triple w of _calculate_weighted_signal
Prediction(signals, w) ==
    [kind |-> "predictor",
     wsNum |-> w.wsNum, wsDen |-> w.wsDen,
     cfNum |-> w.cfNum, cfDen |-> w.cfDen,
     weight |-> w.weight, wDen |-> w.wDen,
     recommendation |-> signal_to_recommendation(w.wsNum, w.wsDen),
     risk_level |-> assess_risk(signals, w.wsNum, w.wsDen),
     confidence |-> RoundHalfEven(10 * w.cfNum, w.cfDen),
     rationale |-> generate_rationale(signals, w, signal_to_recommendation(w.wsNum, w.wsDen)),
     contributing_factors |-> [a \in Agents |-> RoundHalfEven(1000 * w.weight[a], w.wDen)]]

PredictionFrom(signals) == Prediction(signals, calculate_weighted_signal(signals))

predict_from_reports(r) == PredictionFrom(ExtractSignals(r))

\* result["intermediate_reports"] = {...}
WithReports(prediction, r) ==
    [f \in DOMAIN prediction \cup {"intermediate_reports"} |->
        IF f = "intermediate_reports" THEN r ELSE prediction[f]]

\* the per-agent reports returned whatever the verbose argument is
analyze_stock_async_always(r, v) == WithReports(predict_from_reports(r), r)

\* StrategistOrchestrator.analyze_stock_async after the gather: the prediction of
\* ml_model_predict -> predict -> StockPredictor().predict_from_reports, and the
\* reports under "intermediate_reports" when verbose
analyze_stock_async(r, v) ==
    IF v THEN WithReports(predict_from_reports(r), r) ELSE predict_from_reports(r)

Predict ==
    /\ variant = "predictor"
    /\ pc = "synthesis"
    /\ out' = analyze_stock_async(results, verbose)
    /\ pc' = "done"
    /\ UNCHANGED <<world, variant, verbose, results, reports, clock, calls, network>>

Next ==
    \/ ProductionCall
    \/ ProductionSynthesis
    \/ KaggleAnalyze
    \/ KaggleSynthesis
    \/ StrategistCall
    \/ Predict

Spec == Init /\ [][Next]_vars

(***************************************************************************)
(* Two calls of predict() (simple_predictor.py), as the predictor agent's  *)
(* tool ml_model_predict makes them, possibly at the same time.  The calls *)
(* are given the same five report dicts or two sets of dicts; each call    *)
(* has its own StockPredictor and its own locals; datetime.now() is read   *)
(* for the "timestamp" of the returned dict.  The result kept here is the  *)
(* part of the dict that predict_from_reports of the request model         *)
(* computes, with the timestamp; price_target and the five rounded scores  *)
(* are left out.                                                           *)
(***************************************************************************)
CallIds == 1..2

\* the answers the report dicts are drawn from
InputReports == {Complete(s, c) : s \in SigVals, c \in ConfVals} \cup {ErrorOnly}

\* five report dicts: the fundamental report varies over the answers, the sentiment
\* report is the wrapped text or the error dict
InputMappings ==
    {[a \in Agents |-> IF a = "fundamental" THEN x
                       ELSE IF a = "sentiment" THEN y
                       ELSE NonJsonFallback] : x \in InputReports,
                                               y \in {NonJsonFallback, ErrorOnly}}

NoFrame == [none |-> TRUE]

\* a call of predict whose arguments are the dicts reports[k]
NewCall(k) == [pc |-> "called", arg |-> k, self |-> NoFrame, signals |-> NoFrame,
               result |-> NoResult]

InitCalls ==
    /\ variant = "predictor"
    /\ verbose = FALSE
    /\ pc = "calling"
    /\ results = [a \in {} |-> ErrorOnly]
    /\ out = NoResult
    /\ nature = <<>>
    /\ task = <<>>
    /\ upstream = <<>>
    /\ runs = <<>>
    /\ clock = 0
    /\ \E k \in CallIds :
          /\ calls = [c \in CallIds |-> NewCall(IF c = 1 THEN 1 ELSE k)]
          /\ reports \in [CallIds -> InputMappings]
          /\ k = 1 => reports[2] = reports[1]

\* predictor = StockPredictor(): __init__ sets self.model and self.is_trained
Construct(c) ==
    /\ calls[c].pc = "called"
    /\ calls' = [calls EXCEPT ![c].pc = "constructed",
                              ![c].self = [model |-> "None", is_trained |-> FALSE]]
    /\ UNCHANGED <<world, network, request, reports, clock>>

\* the defaults stored in the report dicts (dict.setdefault) instead of read with .get
WriteDefaults(r) ==
    [a \in Agents |-> [r[a] EXCEPT !.hasSig = TRUE, !.sig = GetSignal(r[a]),
                                   !.hasConf = TRUE, !.conf = GetConfidence(r[a])]]

Extract_setdefault(c) ==
    /\ calls[c].pc = "constructed"
    /\ calls' = [calls EXCEPT ![c].pc = "extracted",
                              ![c].signals = ExtractSignals(reports[calls[c].arg])]
    /\ reports' = [reports EXCEPT ![calls[c].arg] = WriteDefaults(@)]
    /\ UNCHANGED <<world, network, request, clock>>

\* "Extract signals and confidence scores": the local signals, read from the dicts
Extract(c) ==
    /\ calls[c].pc = "constructed"
    /\ calls' = [calls EXCEPT ![c].pc = "extracted",
                              ![c].signals = ExtractSignals(reports[calls[c].arg])]
    /\ UNCHANGED <<world, network, request, reports, clock>>

\* "timestamp": datetime.now().isoformat()
WithTimestamp(prediction, now) ==
    [f \in DOMAIN prediction \cup {"timestamp"} |->
        IF f = "timestamp" THEN now ELSE prediction[f]]

\* the rest of predict_from_reports, on the locals, and the returned dict
Return(c) ==
    /\ calls[c].pc = "extracted"
    /\ calls' = [calls EXCEPT ![c].pc = "returned",
                              ![c].result = WithTimestamp(PredictionFrom(calls[c].signals),
                                                          clock)]
    /\ UNCHANGED <<world, network, request, reports, clock>>

\* time passes
Tick ==
    /\ clock < MaxClock
    /\ clock' = clock + 1
    /\ UNCHANGED <<world, network, request, reports, calls>>

NextCalls ==
    \/ \E c \in CallIds : Construct(c)
    \/ \E c \in CallIds : Extract(c)
    \/ \E c \in CallIds : Return(c)
    \/ Tick

SpecCalls == InitCalls /\ [][NextCalls]_vars

(***************************************************************************)
(* The first phase of analyze_stock at the level of the network calls, for *)
(* the orchestrators that call remote agents: ProductionOrchestrator,      *)
(* CloudOrchestrator, FullA2AOrchestrator and StrategistOrchestrator (the  *)
(* variant "predictor").  Each agent answers with a JSON report, answers   *)
(* with text that is not JSON, refuses the connection (the call raises),   *)
(* or stays silent (it never answers).                                     *)
(***************************************************************************)
Orchestrators == {"production", "cloud", "full_a2a", "predictor"}

Natures == {"json", "text", "refuse", "silent"}

\* the report of an agent that answers with JSON
TheAnswer == Complete(100, 100)

NotStarted == [status |-> "not_started"]

InFlight == [status |-> "in_flight"]

Finished(rep) == [status |-> "finished", report |-> rep]

Joined(rep) == [status |-> "joined", report |-> rep]

InitFanOut ==
    /\ variant \in Orchestrators
    /\ verbose = FALSE
    /\ pc = "import"
    /\ results = [a \in {} |-> ErrorOnly]
    /\ out = NoResult
    /\ reports = <<>>
    /\ clock = 0
    /\ calls = <<>>
    /\ nature \in [Agents -> Natures]
    /\ task = [a \in Agents |-> NotStarted]
    /\ upstream = <<>>
    /\ runs = <<>>

\* the module of the orchestrator is compiled when it is imported:
\* cloud_orchestrator.py has "await asyncio.sleep(1)" in _call_agent_direct, which is
\* a plain def, and the compiler rejects it ('await' outside async function)
ImportModule ==
    /\ pc = "import"
    /\ pc' = IF variant = "cloud" THEN "SyntaxError" ELSE "calling"
    /\ UNCHANGED <<world, variant, verbose, results, out, reports, clock, calls, network>>

\* ProductionOrchestrator: the loop calls _call_agent_direct for one agent and blocks;
\* FullA2AOrchestrator: "response = await task" starts the coroutine made for the agent
IssueInOrder ==
    /\ variant \in {"production", "full_a2a"}
    /\ pc = "calling"
    /\ task[NextAgent] = NotStarted
    /\ task' = [task EXCEPT ![NextAgent] = InFlight]
    /\ UNCHANGED <<world, request, reports, clock, calls, nature>>

\* StrategistOrchestrator: asyncio.gather schedules the five coroutines together
Gather ==
    /\ variant = "predictor"
    /\ pc = "calling"
    /\ \A a \in Agents : task[a] = NotStarted
    /\ task' = [a \in Agents |-> InFlight]
    /\ UNCHANGED <<world, request, reports, clock, calls, nature>>

\* what the call returns for an agent that answered or refused: the parsed JSON, the
\* text wrapped with signal 0.0 and confidence 50.0, or the dict of the except branch;
\* FullA2AOrchestrator's response.json() raises on text, which its except branch catches
Convert(v, n) ==
    CASE n = "json" -> TheAnswer
      [] n = "text" -> IF v = "full_a2a" THEN ErrorOnly ELSE NonJsonFallback
      [] OTHER -> IF v = "production" THEN ErrorFallback ELSE ErrorOnly

\* every answer that is not a JSON report turned into an error-flagged report
Convert_flagged(v, n) ==
    CASE n = "json" -> TheAnswer
      [] OTHER -> IF v = "production" THEN ErrorFallback ELSE ErrorOnly

\* the agent answers or refuses, and the call returns
Answer(a) ==
    /\ pc = "calling"
    /\ task[a] = InFlight
    /\ nature[a] # "silent"
    /\ task' = [task EXCEPT ![a] = Finished(Convert(variant, nature[a]))]
    /\ UNCHANGED <<world, request, reports, clock, calls, nature>>

\* FullA2AOrchestrator: aiohttp.ClientTimeout(total=timeout) elapses before the answer
\* has arrived; "except asyncio.TimeoutError" returns an error JSON.  The other
\* orchestrators take or default a timeout argument that they never use.
TimeOut(a) ==
    /\ variant = "full_a2a"
    /\ pc = "calling"
    /\ task[a] = InFlight
    /\ task' = [task EXCEPT ![a] = Finished(ErrorOnly)]
    /\ UNCHANGED <<world, request, reports, clock, calls, nature>>

\* results[agent_type] = result, in the order of the loop
CollectInOrder ==
    /\ variant \in {"production", "full_a2a"}
    /\ pc = "calling"
    /\ task[NextAgent].status = "finished"
    /\ Store(NextAgent, task[NextAgent].report)
    /\ AfterCall
    /\ task' = [task EXCEPT ![NextAgent] = Joined(task[NextAgent].report)]
    /\ UNCHANGED <<world, variant, verbose, out, reports, clock, calls, nature>>

\* the gather returns when the five coroutines have returned
CollectAll ==
    /\ variant = "predictor"
    /\ pc = "calling"
    /\ \A a \in Agents : task[a].status = "finished"
    /\ results' = [a \in Agents |-> task[a].report]
    /\ pc' = "synthesis"
    /\ task' = [a \in Agents |-> Joined(task[a].report)]
    /\ UNCHANGED <<world, variant, verbose, out, reports, clock, calls, nature>>

\* the second phase; FullA2AOrchestrator hands the five responses to the predictor
\* agent, whose answer is not computed here
Synthesize ==
    /\ pc = "synthesis"
    /\ out' = CASE variant = "production" -> SynthProduction(results)
                 [] variant = "predictor" -> analyze_stock_async(results, verbose)
                 [] OTHER -> [kind |-> "full_a2a", analysis_reports |-> results]
    /\ pc' = "done"
    /\ UNCHANGED <<world, variant, verbose, results, reports, clock, calls, network>>

NextFanOut ==
    \/ ImportModule
    \/ IssueInOrder
    \/ Gather
    \/ \E a \in Agents : Answer(a)
    \/ \E a \in Agents : TimeOut(a)
    \/ CollectInOrder
    \/ CollectAll
    \/ Synthesize

SpecFanOut == InitFanOut /\ [][NextFanOut]_vars

(***************************************************************************)
(* Repeated runs of KaggleOrchestrator.analyze_stock for one ticker, as    *)
(* test_consistency makes them, while the data providers and the clock     *)
(* move on.  Signals are in units of 0.00001 until they are rounded to     *)
(* hundredths; market capitalisations are in billions of dollars.          *)
(***************************************************************************)
\* int(hashlib.md5(ticker.encode()).hexdigest()[:8], 16)
ticker_hash == [NVDA |-> 2136959495, XOM |-> 1648110019]

Tickers == DOMAIN ticker_hash

\* get_fundamentals raised (no API key, HTTP error)
Raises == [raises |-> TRUE]

\* what get_fundamentals can return; the last is what .get() reads from the dict
\* {"error": ..., "ticker": ...} returned when Polygon has no results
Fundamentals ==
    {Raises,
     [raises |-> FALSE, market_cap |-> 3000, current_price |-> 230, sector |-> "tech"],
     [raises |-> FALSE, market_cap |-> 100, current_price |-> 350, sector |-> "finance"],
     [raises |-> FALSE, market_cap |-> 0, current_price |-> 0, sector |-> "Unknown"]}

\* what the news, FRED and SEC providers can return: the sentiment_score in hundredths,
\* the rates in hundredths of a percent, the number of 8-K events
OtherData ==
    {[news_count |-> 0, sentiment_score |-> 0,
      fed_rate |-> 450, inflation |-> 300, gdp_growth |-> 250,
      market_regime |-> "expansion", event_count |-> 2],
     [news_count |-> 12, sentiment_score |-> -40,
      fed_rate |-> 525, inflation |-> 300, gdp_growth |-> 250,
      market_regime |-> "neutral", event_count |-> 7]}

Upstreams == [fundamentals : Fundamentals, other : OtherData]

\* max(lo, min(hi, x))
Constrain(lo, hi, x) == IF x > hi THEN hi ELSE IF x < lo THEN lo ELSE x

analyze_fundamentals(ticker, data) ==
    IF data.raises THEN Rep(TRUE, TRUE, 0, TRUE, 50)
    ELSE
    LET h == ticker_hash[ticker]
        base_variation == (h % 1000) - 500
        mega == data.market_cap > 200
        large == data.market_cap > 50
        mid == data.market_cap > 10
        cap_signal == IF mega THEN 10000 + 40 * base_variation
                      ELSE IF large THEN 15000 + 50 * base_variation
                      ELSE IF mid THEN 60 * base_variation
                      ELSE 50 * base_variation - 10000
        conf_base == IF mega THEN 70 ELSE IF large THEN 68 ELSE IF mid THEN 62 ELSE 55
        sector_hash == (h \div 256) % 100
        signal == CASE data.sector = "tech" ->
                         cap_signal + 12000 + 1000 * ((sector_hash % 20) - 10)
                    [] data.sector = "finance" ->
                         cap_signal - (8000 + 1000 * ((sector_hash % 10) - 5))
                    [] data.sector = "energy" ->
                         cap_signal + 1000 * ((sector_hash % 30) - 15)
                    [] OTHER -> cap_signal
        conf == CASE data.sector = "tech" -> conf_base + 5
                  [] data.sector = "finance" -> conf_base + 3
                  [] OTHER -> conf_base
    IN  Complete(RoundHalfEven(signal, 1000), Min(85, conf + (h % 15)))

\* the signal of _analyze_technical before it is constrained and rounded, for the
\* hash h of the ticker
momentum(h, data) ==
    LET base_signal == (h % 1200) - 600
        price_hash == (h \div 16) % 100
    IN  IF data.current_price > 0 /\ data.market_cap > 0
        THEN IF data.current_price > 300
             THEN 85 * base_signal - 1000 * ((price_hash % 20) - 10)
             ELSE IF data.current_price > 200
             THEN 90 * base_signal + 1000 * ((price_hash % 10) - 5)
             ELSE 100 * base_signal + 1000 * ((price_hash % 15) - 5)
        ELSE 60 * base_signal

\* a signal that follows the time of the run
technical_signal_timed(ticker, data) ==
    momentum(ticker_hash[ticker], data) + 1000 * clock

technical_signal(ticker, data) ==
    momentum(ticker_hash[ticker], data)

analyze_technical(ticker, data) ==
    IF data.raises THEN Complete(0, 50)
    ELSE Complete(RoundHalfEven(Constrain(-70000, 70000, technical_signal(ticker, data)),
                                1000),
                  58 + (ticker_hash[ticker] % 25))

analyze_sentiment(data) ==
    IF data.news_count > 0 THEN Complete(data.sentiment_score, 65) ELSE Complete(0, 40)

analyze_macro(data) ==
    Complete(IF data.fed_rate > 500 THEN -40
             ELSE IF data.inflation < 250 /\ data.gdp_growth > 200 THEN 50
             ELSE IF data.market_regime = "expansion" THEN 30
             ELSE IF data.market_regime = "recession" THEN -50
             ELSE 0,
             72)

analyze_regulatory(data) ==
    Complete(IF data.event_count > 5 THEN -20 ELSE 0, 58)

\* the results dict literal of analyze_stock
KaggleReports(ticker, data) ==
    [a \in Agents |->
        CASE a = "fundamental" -> analyze_fundamentals(ticker, data.fundamentals)
          [] a = "technical" -> analyze_technical(ticker, data.fundamentals)
          [] a = "sentiment" -> analyze_sentiment(data.other)
          [] a = "macro" -> analyze_macro(data.other)
          [] OTHER -> analyze_regulatory(data.other)]

\* the dict analyze_stock returns, with the data the run has read
KaggleRun(ticker, data, now) ==
    [ticker |-> ticker,
     seen |-> data,
     timestamp |-> now,
     analysis_reports |-> KaggleReports(ticker, data),
     result |-> SynthKaggle(KaggleReports(ticker, data))]

InitRuns ==
    /\ variant = "kaggle"
    /\ verbose = FALSE
    /\ pc = "calling"
    /\ results = [a \in {} |-> ErrorOnly]
    /\ out = NoResult
    /\ reports = <<>>
    /\ calls = <<>>
    /\ nature = <<>>
    /\ task = <<>>
    /\ clock = 0
    /\ upstream \in Upstreams
    /\ runs = <<>>

\* result = orchestrator.analyze_stock(ticker); results.append(result)
Run(ticker) ==
    /\ Len(runs) < MaxRuns
    /\ \A i \in 1..Len(runs) : runs[i].ticker = ticker
    /\ runs' = Append(runs, KaggleRun(ticker, upstream, clock))
    /\ UNCHANGED <<network, request, reports, clock, calls, upstream>>

\* the market moves: Polygon returns other fundamentals
MarketMoves ==
    /\ \E f \in Fundamentals \ {upstream.fundamentals} :
            upstream' = [upstream EXCEPT !.fundamentals = f]
    /\ UNCHANGED <<network, request, reports, clock, calls, runs>>

\* news, indicators or filings are published
NewsBreaks ==
    /\ \E o \in OtherData \ {upstream.other} :
            upstream' = [upstream EXCEPT !.other = o]
    /\ UNCHANGED <<network, request, reports, clock, calls, runs>>

\* time passes between the runs
TimePasses ==
    /\ clock < MaxClock
    /\ clock' = clock + 1
    /\ UNCHANGED <<network, request, reports, calls, world>>

NextRuns ==
    \/ \E ticker \in Tickers : Run(ticker)
    \/ MarketMoves
    \/ NewsBreaks
    \/ TimePasses

SpecRuns == InitRuns /\ [][NextRuns]_vars

(***************************************************************************)
(* The two tools of the predictor agent (predictor_agent_server.py), which *)
(* the agent's model calls with five strings of its own making.            *)
(***************************************************************************)
Tools == {"ml_model_predict", "calculate_risk"}

\* json.dumps(value) of a dict
Dumps(value) == [json |-> TRUE, dict |-> TRUE, value |-> value]

\* the text "[]": JSON, but not an object
ListText == [json |-> TRUE, dict |-> FALSE, value |-> <<>>]

\* a text that is not JSON
NotJson == [json |-> FALSE, dict |-> FALSE, value |-> <<>>]

ToolStrings ==
    {Dumps(Complete(s, c)) : s \in SigVals, c \in ConfVals}
    \cup {Dumps(ErrorOnly), ListText, NotJson}

ToolInputs ==
    {rs \in [Agents -> ToolStrings] :
        /\ rs["macro"].dict /\ ~rs["macro"].value.err
        /\ rs["regulatory"].dict /\ ~rs["regulatory"].value.err
        /\ rs["regulatory"].value.conf = 100}

\* json.loads raises on one of the five strings
LoadsRaises(rs) == \E a \in Agents : ~rs[a].json

\* one of the parsed values has no .get
GetRaises(rs) == \E a \in Agents : ~rs[a].dict

\* fundamental = json.loads(fundamental_report), ...
Loads(rs) == [a \in Agents |-> rs[a].value]

error_result ==
    [error |-> TRUE, recommendation |-> "HOLD", confidence |-> 0, risk_level |-> "HIGH"]

\* json.loads outside the try block
ml_model_predict_unguarded(rs, now) ==
    IF LoadsRaises(rs) THEN [kind |-> "raised"]
    ELSE IF GetRaises(rs) THEN Dumps(error_result)
    ELSE Dumps(WithTimestamp(predict_from_reports(Loads(rs)), now))

ml_model_predict(rs, now) ==
    IF LoadsRaises(rs) \/ GetRaises(rs) THEN Dumps(error_result)
    ELSE Dumps(WithTimestamp(predict_from_reports(Loads(rs)), now))

\* the tiers of calculate_risk: np.std(signals) and np.mean(confidences) only
CalculatedTier(signals, confidences) ==
    IF StdAbove(signals, 60) \/ SumSeq(confidences) < 40 * Len(confidences) THEN "HIGH"
    ELSE IF StdAbove(signals, 30) \/ SumSeq(confidences) < 60 * Len(confidences)
    THEN "MEDIUM"
    ELSE "LOW"

calculate_risk(rs) ==
    IF LoadsRaises(rs) \/ GetRaises(rs) THEN Dumps([risk_level |-> "UNKNOWN", error |-> TRUE])
    ELSE Dumps([risk_level |->
                    CalculatedTier([i \in 1..Len(AgentOrder) |-> GetSignal(rs[AgentOrder[i]].value)],
                                   [i \in 1..Len(AgentOrder) |-> GetConfidence(rs[AgentOrder[i]].value)])])

InitTools ==
    /\ variant = "predictor"
    /\ verbose = FALSE
    /\ pc = "calling"
    /\ results = [a \in {} |-> ErrorOnly]
    /\ out = NoResult
    /\ reports \in ToolInputs
    /\ clock = 0
    /\ calls = [t \in {} |-> NotJson]
    /\ nature = <<>>
    /\ task = <<>>
    /\ upstream = <<>>
    /\ runs = <<>>

\* what the tool returned, kept by its name
Returning(tool, text) ==
    calls' = [t \in DOMAIN calls \cup {tool} |-> IF t = tool THEN text ELSE calls[t]]

MlModelPredict ==
    /\ "ml_model_predict" \notin DOMAIN calls
    /\ Returning("ml_model_predict", ml_model_predict(reports, clock))
    /\ UNCHANGED <<world, network, request, reports, clock>>

CalculateRisk ==
    /\ "calculate_risk" \notin DOMAIN calls
    /\ Returning("calculate_risk", calculate_risk(reports))
    /\ UNCHANGED <<world, network, request, reports, clock>>

NextTools ==
    \/ MlModelPredict
    \/ CalculateRisk

SpecTools == InitTools /\ [][NextTools]_vars

(***************************************************************************)
(* Properties                                                              *)
(***************************************************************************)
Done == pc = "done"

\* the synthesis of the variant v applied to the reports r
Synth(v, r) ==
    CASE v = "production" -> SynthProduction(r)
      [] v = "kaggle" -> SynthKaggle(r)
      [] OTHER -> predict_from_reports(r)

\* the dict r without the key a
Remove(r, a) == [k \in DOMAIN r \ {a} |-> r[k]]

SameSignal(o1, o2) == o1.wsNum * o2.wsDen = o2.wsNum * o1.wsDen

SameConfidence(o1, o2) == o1.cfNum * o2.cfDen = o2.cfNum * o1.cfDen

NonError(r) == {a \in DOMAIN r : ~r[a].err}

\* the non-error reports, in dict order
NonErrorSeq(r) == SelectSeq(Values(r), LAMBDA a : ~r[a].err)

AllComplete(r) == \A a \in DOMAIN r : r[a].hasSig /\ r[a].hasConf

\* C1: a report that carries an error field never influences weighted_signal or
\* average_confidence: giving it any other directional_signal and confidence_score,
\* or removing it from the reports, leaves both unchanged.
C1_ErrorExclusion ==
    Done =>
        \A a \in Agents :
            results[a].err =>
                /\ \A s \in SigVals, c \in ConfVals :
                      LET o == Synth(variant, [results EXCEPT ![a] = Rep(TRUE, TRUE, s, TRUE, c)])
                      IN  SameSignal(out, o) /\ SameConfidence(out, o)
                /\ variant = "production" =>
                      LET o == SynthProduction(Remove(results, a))
                      IN  SameSignal(out, o) /\ SameConfidence(out, o)

\* C2: with at least one non-error report and positive total weight, weighted_signal
\* is sum(directional_signal[k] * effective_weight[k]) / sum(effective_weight[k]),
\* both sums taken over exactly the non-error reports.
C2_WeightedMeanOverNonError ==
    (Done /\ variant = "predictor" /\ NonError(results) # {}) =>
        LET ks == NonErrorSeq(results)
            w == [i \in 1..Len(ks) |-> EffectiveWeight(ks[i], GetConfidence(results[ks[i]]))]
            num == SumSeq([i \in 1..Len(ks) |-> GetSignal(results[ks[i]]) * w[i]])
            den == SumSeq(w)
        IN  den > 0 => out.wsNum * den = num * out.wsDen

\* C3 (as stated, for every synthesis): a non-error report with confidence 0 still
\* carries half its base weight, it is never fully zeroed: its directional_signal
\* has an influence on weighted_signal.
C3_NeverZeroed ==
    Done =>
        \A a \in Agents :
            (~results[a].err /\ results[a].hasSig /\ results[a].hasConf /\ results[a].conf = 0) =>
                \E s \in SigVals :
                    ~SameSignal(out, Synth(variant, [results EXCEPT ![a].sig = s]))

\* C3 (amended): in StockPredictor._calculate_weighted_signal the weight of report k is
\* base_weight[k] * (0.5 + 0.5 * confidence[k] / 100): half the base weight at
\* confidence 0, the full base weight at confidence 100.  The orchestrators use no base
\* weight: when every report carries both fields and the confidences do not sum to 0,
\* their weighted_signal is sum(signal * confidence) / sum(confidence).
C3_EffectiveWeight ==
    /\ (Done /\ variant = "predictor") =>
          \A k \in Agents :
              LET c == GetConfidence(results[k])
              IN  /\ out.weight[k] * BaseScale * 200 = WeightScale * base_weights[k] * (100 + c)
                  /\ c = 0 => 2 * out.weight[k] * BaseScale = WeightScale * base_weights[k]
                  /\ c = 100 => out.weight[k] * BaseScale = WeightScale * base_weights[k]
    /\ (Done /\ variant \in {"production", "kaggle"} /\ AllComplete(results)) =>
          LET sc == SumSeq([i \in 1..Len(AgentOrder) |->
                        results[AgentOrder[i]].sig * results[AgentOrder[i]].conf])
              cc == SumSeq([i \in 1..Len(AgentOrder) |-> results[AgentOrder[i]].conf])
          IN  cc > 0 => out.wsNum * cc = sc * out.wsDen

\* C3 witness: the predictor has weighted a confidence-0 and a confidence-100 report
C3_Witness ==
    /\ Done /\ variant = "predictor"
    /\ \E a, b \in Agents :
          /\ ~results[a].err /\ results[a].hasConf /\ results[a].conf = 0
          /\ ~results[b].err /\ results[b].hasConf /\ results[b].conf = 100
          /\ 2 * out.weight[a] * BaseScale = WeightScale * base_weights[a]
          /\ out.weight[b] * BaseScale = WeightScale * base_weights[b]

\* C4: with no usable report (every report error-flagged) the result is
\* weighted_signal 0.0, average_confidence 50.0, recommendation HOLD, risk_level MEDIUM.
C4_Fallback ==
    (Done /\ NonError(results) = {}) =>
        /\ out.kind # "raised"
        /\ out.wsNum = 0
        /\ out.cfNum = 50 * out.cfDen
        /\ out.recommendation = "HOLD"
        /\ out.risk_level = "MEDIUM"

Thresholds(o, t) ==
    /\ o.recommendation = "BUY" <=> o.wsNum > t * o.wsDen
    /\ o.recommendation = "SELL" <=> o.wsNum < (-t) * o.wsDen
    /\ o.recommendation = "HOLD" <=> (o.wsNum <= t * o.wsDen /\ o.wsNum >= (-t) * o.wsDen)

SpecRisk(o) ==
    IF o.recommendation \in {"BUY", "SELL"}
    THEN IF Abs(o.wsNum) > 35 * o.wsDen /\ o.cfNum > 70 * o.cfDen THEN "LOW"
         ELSE IF o.cfNum > 60 * o.cfDen THEN "MEDIUM" ELSE "HIGH"
    ELSE IF o.cfNum > 70 * o.cfDen THEN "LOW" ELSE "MEDIUM"

\* C6 (as stated, for every synthesis): for BUY or SELL, risk_level is LOW if
\* abs(weighted_signal) > 0.35 and average_confidence > 70, otherwise MEDIUM if
\* average_confidence > 60, otherwise HIGH.
C6_DirectionalRiskEverywhere ==
    (Done /\ out.recommendation \in {"BUY", "SELL"}) => out.risk_level = SpecRisk(out)

\* C6 (amended): in KaggleOrchestrator.analyze_stock a BUY or SELL has risk_level LOW if
\* abs(weighted_signal) > 0.35 and average_confidence > 70, otherwise MEDIUM if
\* average_confidence > 60, otherwise HIGH; in the Production / Cloud orchestrators a
\* BUY or SELL has risk_level MEDIUM if average_confidence > 70 and HIGH otherwise.
C6_DirectionalRisk ==
    /\ (Done /\ variant = "kaggle" /\ out.recommendation \in {"BUY", "SELL"}) =>
          out.risk_level = SpecRisk(out)
    /\ (Done /\ variant = "production" /\ out.recommendation \in {"BUY", "SELL"}) =>
          out.risk_level = IF out.cfNum > 70 * out.cfDen THEN "MEDIUM" ELSE "HIGH"

\* C6 witness: a Kaggle BUY with a strong signal and high confidence is rated LOW
C6_Witness ==
    /\ Done /\ variant = "kaggle"
    /\ out.recommendation = "BUY"
    /\ out.wsNum > 35 * out.wsDen /\ out.cfNum > 70 * out.cfDen
    /\ out.risk_level = "LOW"

\* C7 (as stated, for every synthesis): for HOLD, risk_level is LOW if
\* average_confidence > 70 and MEDIUM otherwise, never HIGH.
C7_HoldRiskEverywhere ==
    (Done /\ out.recommendation = "HOLD") =>
        /\ out.risk_level = SpecRisk(out)
        /\ out.risk_level # "HIGH"

\* C7 (amended): in the Production, Cloud and Kaggle orchestrators a HOLD has risk_level
\* LOW if average_confidence > 70 and MEDIUM otherwise, never HIGH
\* (StockPredictor._assess_risk does not look at the recommendation).
C7_HoldRisk ==
    (Done /\ variant \in {"production", "kaggle"} /\ out.recommendation = "HOLD") =>
        /\ out.risk_level = (IF out.cfNum > 70 * out.cfDen THEN "LOW" ELSE "MEDIUM")
        /\ out.risk_level # "HIGH"

\* C7 witness: a Production HOLD with average confidence at most 60 is rated MEDIUM
C7_Witness ==
    /\ Done /\ variant = "production"
    /\ out.recommendation = "HOLD"
    /\ out.cfNum <= 60 * out.cfDen
    /\ out.risk_level = "MEDIUM"

\* C8: average_confidence is the arithmetic mean of confidence_score over the
\* non-error reports only, not adjusted by any weight.
C8_MeanConfidence ==
    (Done /\ AllComplete(results) /\ NonError(results) # {}) =>
        LET ks == NonErrorSeq(results)
            total == SumSeq([i \in 1..Len(ks) |-> results[ks[i]].conf])
        IN  out.cfNum * Len(ks) = total * out.cfDen

ValidInputs(r) ==
    \A a \in DOMAIN r :
        /\ r[a].hasSig => (r[a].sig >= -100 /\ r[a].sig <= 100)
        /\ r[a].hasConf => (r[a].conf >= 0 /\ r[a].conf <= 100)

\* C9: for valid inputs (signals in [-1, 1], confidences in [0, 100]) the result has
\* weighted_signal in [-1, 1] and average_confidence in [0, 100], before and after
\* the rounding of the returned fields.
C9_RangePreservation ==
    (Done /\ ValidInputs(results)) =>
        /\ out.wsNum >= (-100) * out.wsDen /\ out.wsNum <= 100 * out.wsDen
        /\ out.cfNum >= 0 /\ out.cfNum <= 100 * out.cfDen
        /\ out.confidence >= 0 /\ out.confidence <= 1000
        /\ variant # "predictor" => (out.weighted_signal >= -1000 /\ out.weighted_signal <= 1000)

\* C9 witness: a synthesis over valid reports has reached the upper end of both ranges
C9_Witness ==
    /\ Done /\ ValidInputs(results)
    /\ variant = "production"
    /\ out.wsNum = 100 * out.wsDen
    /\ out.cfNum = 100 * out.cfDen

\* C10: with at least one usable report, weighted_signal lies between the smallest and
\* the largest directional_signal of the usable (non-error) reports.
C10_ConvexCombination ==
    (Done /\ variant = "predictor" /\ NonError(results) # {}) =>
        /\ \E a \in NonError(results) : GetSignal(results[a]) * out.wsDen <= out.wsNum
        /\ \E a \in NonError(results) : GetSignal(results[a]) * out.wsDen >= out.wsNum

\* a report the synthesis can use: no error field, both numeric fields present
Usable(rep) == ~rep.err /\ rep.hasSig /\ rep.hasConf

\* confidence scores a report's confidence is raised to
RaisedConf == {50, 100}

\* the weighted signal of o2 is nearer to s (hundredths) than that of o, on the same
\* side of s; it is the same as that of o when o's weighted signal equals s
Toward(o, o2, s) ==
    IF o.wsNum = s * o.wsDen THEN SameSignal(o, o2)
    ELSE IF o.wsNum < s * o.wsDen
    THEN o.wsNum * o2.wsDen < o2.wsNum * o.wsDen /\ o2.wsNum <= s * o2.wsDen
    ELSE o.wsNum * o2.wsDen > o2.wsNum * o.wsDen /\ o2.wsNum >= s * o2.wsDen

\* C11: raising the confidence_score of one usable report, all signals and all other
\* confidences held fixed, moves weighted_signal strictly toward that report's own
\* directional_signal, or leaves it unchanged when it already equals that signal.
C11_Monotonicity ==
    (Done /\ variant \in {"production", "predictor"}) =>
        \A a \in Agents :
            Usable(results[a]) =>
                \A c \in RaisedConf :
                    c > results[a].conf =>
                        Toward(out, Synth(variant, [results EXCEPT ![a].conf = c]),
                               results[a].sig)

\* the per-agent report map of a result, under the key the orchestrator uses
HasReportMap(o) == "analysis_reports" \in DOMAIN o \/ "intermediate_reports" \in DOMAIN o

ReportMap(o) ==
    IF "analysis_reports" \in DOMAIN o THEN o.analysis_reports ELSE o.intermediate_reports

OutOfRange == Complete(110, 110)

\* answers whose numbers leave the ranges the prompts ask for
OutOfRangeReports == {OutOfRange, Complete(-110, 100), Complete(100, 110)}

\* a result was returned (nothing was raised) and its fields are defined
WellDefined(o) ==
    /\ o.kind \in Variants
    /\ o.wsDen > 0 /\ o.cfDen > 0
    /\ o.recommendation \in {"BUY", "HOLD", "SELL"}
    /\ o.risk_level \in {"LOW", "MEDIUM", "HIGH"}

\* reports with a data-quality problem: a missing field, no field at all, an error
\* flag, numbers outside the ranges, confidence 0
DegenerateReports ==
    {Rep(FALSE, TRUE, 100, FALSE, 0), Rep(FALSE, FALSE, 0, TRUE, 100),
     Rep(FALSE, FALSE, 0, FALSE, 0), ErrorOnly, ErrorFallback,
     OutOfRange, Complete(-110, -100), Complete(100, 0)}

SynthesisOfNothing == SynthProduction([a \in {} |-> ErrorOnly])

\* StockPredictor on five reports whose confidences are so low that the total weight
\* is 0 (confidence -100) or negative (confidence -300)
SynthesisOfNoWeight ==
    {predict_from_reports([a \in Agents |-> Complete(-110, c)]) : c \in {-100, -300}}

\* Phase 2 of the Production orchestrator and StockPredictor on five out-of-range reports
SynthesisOfOutOfRange ==
    {Synth(v, [a \in Agents |-> rep]) : v \in {"production", "predictor"},
                                        rep \in OutOfRangeReports}

C14_MissingFieldNeutral ==
    Done =>
        /\ out.kind # "raised"
        /\ \A a \in Agents :
              (~results[a].err /\ ~(results[a].hasSig /\ results[a].hasConf)) =>
                  LET o == Synth(variant, [results EXCEPT ![a] = Complete(0, 0)])
                  IN  SameSignal(out, o) /\ SameConfidence(out, o)

\* the report with its numbers brought to the nearest bound of [-1, 1] and [0, 100]
Clamped(rep) ==
    [rep EXCEPT !.sig = IF @ > 100 THEN 100 ELSE IF @ < -100 THEN -100 ELSE @,
                !.conf = IF @ > 100 THEN 100 ELSE IF @ < 0 THEN 0 ELSE @]

\* C15: a directional_signal outside [-1, 1] or a confidence_score outside [0, 100] is
\* clamped to the nearest bound before it is used: the result is the one the synthesis
\* gives when the clamped values are supplied.
C15_Clamping ==
    Done =>
        \A a \in Agents, rep \in OutOfRangeReports :
            LET o  == Synth(variant, [results EXCEPT ![a] = rep])
                o2 == Synth(variant, [results EXCEPT ![a] = Clamped(rep)])
            IN  SameSignal(o, o2) /\ SameConfidence(o, o2)

\* the empty dict: what predict_from_reports is given for an agent that has no report
\* (its five parameters are all required)
Absent == Rep(FALSE, FALSE, 0, FALSE, 0)

\* C16: an agent key absent from the input does not contribute: the weights
\* renormalize over the present reports, weighted_signal is the weighted mean of the
\* present reports only and is not pulled toward 0 by the absent agent.
C16_AbsentKeysRenormalize ==
    Done =>
        \A a \in Agents :
            LET present == SelectSeq(AgentOrder, LAMBDA k : k # a)
            IN  /\ (variant = "production" /\ AllComplete(results)) =>
                      LET o == SynthProduction(Remove(results, a))
                          sc == SumSeq([i \in 1..Len(present) |->
                                    results[present[i]].sig * results[present[i]].conf])
                          cc == SumSeq([i \in 1..Len(present) |-> results[present[i]].conf])
                      IN  cc > 0 => o.wsNum * cc = sc * o.wsDen
                /\ variant = "predictor" =>
                      LET o == predict_from_reports([results EXCEPT ![a] = Absent])
                          w == [i \in 1..Len(present) |->
                                   EffectiveWeight(present[i], GetConfidence(results[present[i]]))]
                          num == SumSeq([i \in 1..Len(present) |->
                                    GetSignal(results[present[i]]) * w[i]])
                          den == SumSeq(w)
                      IN  den > 0 => o.wsNum * den = num * o.wsDen

\* the lines of a rationale that are about one agent
PerAgentLines(o) ==
    SelectSeq(o.rationale, LAMBDA l : l.line \in {"agent", "summary", "factor"})

\* the positions in the rationale of the lines of the given kinds
LinePositions(o, kinds) == {i \in DOMAIN o.rationale : o.rationale[i].line \in kinds}

\* the class the claim gives to a signal in hundredths
SignalClass(s) == IF s > 30 THEN "bullish" ELSE IF s < -30 THEN "bearish" ELSE "neutral"

\* C17 (as stated, for every rationale the code builds): the rationale has exactly one
\* line per non-error agent and none for an error-flagged agent; each classifies the
\* agent's signal as bullish (> 0.3), bearish (< -0.3) or neutral and gives its signal
\* and confidence; the per-agent lines come before the lines that give the aggregate
\* weighted signal and the average confidence.
C17_RationaleEverywhere ==
    Done =>
        LET per == PerAgentLines(out)
        IN  /\ Len(per) = Cardinality(NonError(results))
            /\ {per[i].agent : i \in DOMAIN per} = NonError(results)
            /\ \A i \in DOMAIN per :
                  /\ {"sentiment", "signal", "confidence"} \subseteq DOMAIN per[i]
                  /\ per[i].sentiment = SignalClass(per[i].signal)
            /\ \A i \in LinePositions(out, {"agent", "summary", "factor"}),
                  j \in LinePositions(out, {"recommendation", "weighted_signal",
                                            "average_confidence"}) : i < j

\* the lines per about agents are those of the Production rationale for the reports r
\* whose keys without an "error" are ks
ProductionLines(per, r, ks) ==
    /\ Len(per) = Len(ks)
    /\ \A i \in DOMAIN per :
          /\ per[i].line = "agent" /\ per[i].agent = ks[i]
          /\ per[i].signal = (IF r[ks[i]].hasSig THEN r[ks[i]].sig ELSE 0)
          /\ per[i].confidence = (IF r[ks[i]].hasConf THEN r[ks[i]].conf ELSE 0)
          /\ per[i].sentiment = SignalClass(per[i].signal)

\* all the lines at the positions before come before the one line of the first kind,
\* which comes before the one line of the second kind
InOrder(before, first, second) ==
    /\ Cardinality(first) = 1 /\ Cardinality(second) = 1
    /\ \A i \in before, w \in first, c \in second : i < w /\ w < c

\* the lines per are the summaries of the five agents
KaggleLines(per) ==
    /\ Len(per) = Len(AgentOrder)
    /\ \A i \in DOMAIN per : per[i].line = "summary" /\ per[i].agent = AgentOrder[i]

\* the lines per are three key factors of the reports r, of three agents whose
\* |signal| no agent left out exceeds
PredictorLines(per, r) ==
    /\ Len(per) = 3
    /\ Cardinality({per[i].agent : i \in DOMAIN per}) = 3
    /\ \A i \in DOMAIN per :
          /\ per[i].line = "factor"
          /\ per[i].direction =
                (IF GetSignal(r[per[i].agent]) > 0 THEN "positive"
                 ELSE IF GetSignal(r[per[i].agent]) < 0 THEN "negative"
                 ELSE "neutral")
          /\ per[i].confidence = GetConfidence(r[per[i].agent])
          /\ \A a \in Agents \ {per[k].agent : k \in DOMAIN per} :
                Abs(GetSignal(r[a])) <= Abs(GetSignal(r[per[i].agent]))

\* C17 (amended): in the rationale of the Production / Cloud orchestrators the lines
\* about agents are, in the order of the agents, exactly one per report without an
\* "error" key; each gives the class of the signal (bullish > 0.3, bearish < -0.3,
\* neutral otherwise), the signal and the confidence, a missing field shown as 0; they
\* come before the weighted-signal line, which comes before the average-confidence
\* line.  The Kaggle rationale has one summary line for each of the five agents,
\* error-flagged or not, before the two aggregate lines.  The StockPredictor rationale
\* begins with the recommendation and the weighted signal and then lists the three
\* agents with the largest |signal|, error-flagged or not, each with the sign of its
\* signal (positive, negative, neutral) and its confidence.
C17_Rationale ==
    Done =>
        CASE variant = "production" ->
               /\ ProductionLines(PerAgentLines(out), results, NonErrorSeq(results))
               /\ InOrder(LinePositions(out, {"agent"}),
                          LinePositions(out, {"weighted_signal"}),
                          LinePositions(out, {"average_confidence"}))
          [] variant = "kaggle" ->
               /\ KaggleLines(PerAgentLines(out))
               /\ InOrder(LinePositions(out, {"summary"}),
                          LinePositions(out, {"weighted_signal"}),
                          LinePositions(out, {"average_confidence"}))
          [] OTHER ->
               /\ out.rationale[1].line = "recommendation"
               /\ PredictorLines(PerAgentLines(out), results)

\* C17 witness: a Production rationale for reports of which one is error-flagged, one
\* is bullish, one is bearish and one lacks its signal: it has fewer than five lines
\* about agents, among them a bullish, a bearish and a neutral one
C17_Witness ==
    /\ Done /\ variant = "production"
    /\ \E a \in Agents : results[a].err
    /\ \E a \in Agents : ~results[a].err /\ ~results[a].hasSig
    /\ Len(PerAgentLines(out)) < Len(AgentOrder)
    /\ \A s \in {"bullish", "bearish", "neutral"} :
          \E i \in DOMAIN PerAgentLines(out) : PerAgentLines(out)[i].sentiment = s

\* the rationale carries the note on significant disagreement among analysts
FlagsDisagreement(o) ==
    \E i \in DOMAIN o.rationale :
        o.rationale[i].line = "note" /\ o.rationale[i].note = "disagreement"

\* the directional_signal values of the reports without an error flag
NonErrorSignals(r) ==
    [i \in 1..Len(NonErrorSeq(r)) |-> GetSignal(r[NonErrorSeq(r)[i]])]

\* the risk_level _assess_risk gives when the signals do not disagree at all
RiskWithoutDisagreement(r) ==
    RiskTier([i \in 1..Len(AgentOrder) |-> 0],
             [i \in 1..Len(AgentOrder) |-> GetConfidence(r[AgentOrder[i]])],
             out.wsNum, out.wsDen)

\* C18: whenever the standard deviation of directional_signal across the non-error
\* reports is above 0.5 the rationale of StockPredictor flags significant disagreement
\* among analysts, and the disagreement does not determine risk_level: risk_level is
\* what it is without any disagreement.
C18_DisagreementFlag ==
    (Done /\ variant = "predictor") =>
        /\ StdAbove(NonErrorSignals(results), 50) => FlagsDisagreement(out)
        /\ out.risk_level = RiskWithoutDisagreement(results)

\* the returned dict without its timestamp
Timeless(result) == [f \in DOMAIN result \ {"timestamp"} |-> result[f]]

Returned(c) == calls[c].pc = "returned"

\* both calls have returned and were given equal reports
EqualCallsReturned ==
    /\ \A c \in CallIds : Returned(c)
    /\ reports[calls[1].arg] = reports[calls[2].arg]

\* C19 (as stated): predict is a pure computation: it modifies neither the reports it
\* is given nor any state shared between calls, and two calls with equal reports, in
\* any interleaving, return equal results.
C19_Pure ==
    /\ [][reports' = reports]_vars
    /\ [](EqualCallsReturned => calls[1].result = calls[2].result)

\* C19 (amended): predict modifies neither the reports it is given nor its
\* StockPredictor; the dict a call returns is, but for its "timestamp", the prediction
\* for the reports of that call, whatever the other call does and whenever it does it;
\* so two calls with equal reports return dicts that are equal but for "timestamp",
\* which is the clock's value at the return.
C19_PureButTimestamp ==
    /\ [][reports' = reports]_vars
    /\ [](\A c \in CallIds :
            /\ calls[c].pc # "called" => calls[c].self = [model |-> "None", is_trained |-> FALSE]
            /\ Returned(c) =>
                  /\ Timeless(calls[c].result) = predict_from_reports(reports[calls[c].arg])
                  /\ calls[c].result.timestamp \in 0..clock)
    /\ [](EqualCallsReturned => Timeless(calls[1].result) = Timeless(calls[2].result))

\* C19 witness: two calls with equal reports in different dicts, one of them
\* error-flagged, have returned at different times: the results differ in "timestamp" only
C19_Witness ==
    /\ EqualCallsReturned
    /\ calls[1].arg # calls[2].arg
    /\ reports[1]["fundamental"] = ErrorOnly
    /\ calls[1].result.timestamp # calls[2].result.timestamp
    /\ Timeless(calls[1].result) = Timeless(calls[2].result)

\* what a joined call of the orchestrator leaves under the agent's key: a returned
\* report or an error-flagged one
JoinedReports(v, a) ==
    CASE v = "production" -> call_agent_direct
      [] v = "kaggle" -> KaggleOutcomes(a)
      [] OTHER -> call_agent_async

\* the agents whose call has not been joined yet
Pending == Agents \ DOMAIN results

Failed(a) == nature[a] \in {"refuse", "silent"}

Collected ==
    /\ DOMAIN results = Agents
    /\ \A a \in Agents : Failed(a) => results[a].err
    /\ \A a \in Agents : nature[a] = "json" /\ variant # "full_a2a" => results[a] = TheAnswer

\* C21: an agent that fails or times out does not block or fail the others: whatever
\* subset of the agents fails, the request keeps making progress until analyze_stock
\* has returned, and then the reports of the other agents are collected and every
\* failed agent has an error-flagged report.
C21_FailureIsolation ==
    IF pc = "done" THEN Collected /\ out # NoResult ELSE ENABLED NextFanOut

\* the same for the failures that raise: no agent is silent
C21_RefusalIsolation ==
    (\A a \in Agents : nature[a] # "silent") /\ variant # "cloud"
        => C21_FailureIsolation

C21_RefusalWitness ==
    /\ pc = "done"
    /\ \E a, b \in Agents : nature[a] = "refuse" /\ nature[b] = "json"
                              /\ results[a].err /\ results[b] = TheAnswer

\* C22: the five specialist calls are issued concurrently: when one call has run to
\* completion, each of the five calls has been started.
C22_IssuedConcurrently ==
    (\E a \in Agents : task[a].status \in {"finished", "joined"})
        => \A b \in Agents : task[b] # NotStarted

\* the gather of StrategistOrchestrator is the one fan-out that is concurrent
C22_GatherConcurrent ==
    variant = "predictor" => C22_IssuedConcurrently

\* C23: every specialist call is bounded by a timeout: a call in flight can always
\* end, with the answer of the agent or with the error-flagged report of the timeout.
C23_BoundedCalls ==
    \A a \in Agents : task[a] = InFlight => ENABLED (Answer(a) \/ TimeOut(a))

\* a call that timed out has an error-flagged report
C23_TimedOutIsFlagged ==
    \A a \in Agents :
        task[a].status \in {"finished", "joined"} /\ nature[a] = "silent"
            => task[a].report.err

C23_TimedOutWitness ==
    \E a \in Agents : task[a].status = "joined" /\ nature[a] = "silent"

\* C24: a report made from a refused connection, a timeout or an answer that is not
\* JSON carries the error field.
C24_FailuresFlagged ==
    \A a \in Agents :
        task[a].status \in {"finished", "joined"} /\ nature[a] # "json"
            => task[a].report.err

\* refused connections and timeouts are flagged
C24_RaisedFlagged ==
    \A a \in Agents :
        task[a].status \in {"finished", "joined"} /\ nature[a] \in {"refuse", "silent"}
            => task[a].report.err

\* C26: CloudOrchestrator._call_agent_direct can be called: the module that defines
\* it is imported, and the request reaches its calls.
C26_RetryRuns ==
    variant = "cloud" => pc # "SyntaxError"

(***************************************************************************)
(* Claims about repeated runs, under SpecRuns.                             *)
(***************************************************************************)
Signal(run, a) == run.analysis_reports[a].sig

Predicted == "ml_model_predict" \in DOMAIN calls

\* C27: ml_model_predict never raises: it returns a JSON text; when one of the five
\* strings is not valid JSON or the prediction fails, the text holds an error field,
\* recommendation HOLD, confidence 0.0 and risk_level HIGH; otherwise it holds the
\* prediction of StockPredictor.predict_from_reports for the parsed reports.
C27_ToolNeverRaises ==
    Predicted =>
        LET text == calls["ml_model_predict"]
        IN  /\ DOMAIN text = {"json", "dict", "value"}
            /\ text.json /\ text.dict
            /\ IF \E a \in Agents : ~reports[a].json \/ ~reports[a].dict
               THEN text.value = error_result
               ELSE /\ "error" \notin DOMAIN text.value
                    /\ "timestamp" \in DOMAIN text.value
                    /\ text.value = WithTimestamp(predict_from_reports(Loads(reports)),
                                                  text.value.timestamp)

\* a string that is not JSON was given, and the tool has returned
C27_Witness ==
    /\ Predicted
    /\ ~reports["technical"].json
    /\ reports["fundamental"].json /\ reports["fundamental"].dict
    /\ calls["ml_model_predict"].value.risk_level = "HIGH"

\* C29: for the same five reports the two tools agree on risk: the risk_level of
\* calculate_risk is the risk_level of ml_model_predict.
C29_ToolsAgreeOnRisk ==
    DOMAIN calls = Tools =>
        calls["calculate_risk"].value.risk_level = calls["ml_model_predict"].value.risk_level

(***************************************************************************)
(* Claims about the weights, under Spec.                                   *)
(***************************************************************************)
\* the agents whose signal, and whose confidence, the two list comprehensions keep
SignalAgents(r) == SelectSeq(Values(r), LAMBDA a : r[a].hasSig)

ConfidenceAgents(r) == SelectSeq(Values(r), LAMBDA a : r[a].hasConf)

\* the sum of signal * confidence, each signal with the confidence of its own report
OwnProducts(r) ==
    SumSeq([i \in 1..Len(Values(r)) |->
               IF r[Values(r)[i]].hasSig /\ r[Values(r)[i]].hasConf
               THEN r[Values(r)[i]].sig * r[Values(r)[i]].conf ELSE 0])

\* C28: in the synthesis of the Production / Cloud orchestrators each signal is
\* weighted by the confidence of the same agent's report, for every results mapping:
\* the pairs that zip forms are pairs of one agent, and the weighted sum is the sum of
\* the reports' own products.
C28_OwnConfidence ==
    (Done /\ variant = "production") =>
        /\ \A i \in 1..Min(Len(SignalAgents(results)), Len(ConfidenceAgents(results))) :
               SignalAgents(results)[i] = ConfidenceAgents(results)[i]
        /\ SumSeq(ProdConfidences(results)) > 0 /\ Len(ProdSignals(results)) > 0
               => out.wsNum = OwnProducts(results)

\* the same for the mappings whose reports carry both fields or neither
C28_OwnConfidenceWhenComplete ==
    (Done /\ variant = "production"
          /\ \A a \in DOMAIN results : results[a].hasSig = results[a].hasConf)
        => /\ SignalAgents(results) = ConfidenceAgents(results)
           /\ SumSeq(ProdConfidences(results)) > 0 => out.wsNum = OwnProducts(results)

\* C30: whenever the total weight is positive, the normalized weights of
\* _calculate_weighted_signal (final_weights[k] = weight[k] / wDen, reported rounded
\* as contributing_factors) are each non-negative and sum to 1 before rounding, for
\* every combination of the five confidence scores in [0, 100].
C30_NormalizedWeights ==
    (Done /\ variant = "predictor"
          /\ \A a \in Agents : GetConfidence(results[a]) \in 0..100) =>
        LET total_weight == SumSeq([i \in 1..Len(AgentOrder) |->
                                EffectiveWeight(AgentOrder[i],
                                                GetConfidence(results[AgentOrder[i]]))])
        IN  total_weight > 0 =>
              /\ out.wDen > 0
              /\ \A a \in Agents : out.weight[a] >= 0
              /\ SumSeq([i \in 1..Len(AgentOrder) |-> out.weight[AgentOrder[i]]]) = out.wDen

\* weights that had to be scaled up: the raw weights sum to less than 1
C30_Witness ==
    /\ Done /\ variant = "predictor"
    /\ \E a, b \in Agents : GetConfidence(results[a]) = 0 /\ GetConfidence(results[b]) = 100
    /\ out.wDen > 0 /\ out.wDen < WeightScale
    /\ SumSeq([i \in 1..Len(AgentOrder) |-> out.weight[AgentOrder[i]]]) = out.wDen
====
